---- MODULE Spec2Model ----
(***************************************************************************)
(* Model of icinga::Application (src/base/application.cpp): the process   *)
(* singleton, its shutdown flag, the component registry and loader, the    *)
(* event loop, the interrupt handler, the executable-path cache and the    *)
(* top-level fault boundary of Run.                                        *)
(*                                                                         *)
(* The POSIX build is modelled (the #ifndef _WIN32 branches).  Reads and   *)
(* writes of the plain bool m_ShuttingDown are single atomic steps.  Timer *)
(* and event callbacks return; what they may do to the state modelled here *)
(* is call Shutdown().                                                     *)
(***************************************************************************)
EXTENDS Integers, Sequences, FiniteSets, TLC

\* ------------------------------------------------------------ bounds

\* Number of RegisterComponent/UnregisterComponent calls made in one run.
MaxOps == 4

\* Number of events other threads post to the event queue in one run.
MaxEvents == 2

\* Number of Shutdown() calls made by threads and callbacks in one run (the
\* interrupt handler's call comes on top).
MaxShutdownCalls == 2

\* ------------------------------------------------------------ universe

\* The empty shared_ptr (Application::Ptr(), Component::Ptr()).
Null == "null"

\* The one Application object of the process.
Self == "app"

\* Identity of the thread that calls Run; the value of a default-constructed
\* boost::thread::id.
MainThread == "main"
NoThread == "nothread"

\* Component objects; a1 and a2 report the same name.
Components == {"a1", "a2", "b", "c"}

\* Component::GetName().
GetName(c) == CASE c = "a1" -> "A"
                [] c = "a2" -> "A"
                [] c = "b" -> "B"
                [] c = "c" -> "C"

\* Keys of m_Components in the iteration order of std::map<string, ...>.
NameOrder == <<"A", "B", "C">>

Names == {NameOrder[i] : i \in 1..Len(NameOrder)}

\* Events that may be posted, each at most once.
Events == 1..MaxEvents

\* Exit codes Main may return; EXIT_FAILURE is what Run returns on a fault.
ExitCodes == {0, 1, 2}
EXIT_FAILURE == 1
NoResult == -1

\* What may escape Main: an object derived from std::exception, or any other
\* thrown object (C++ allows throwing values of any type).
FaultKinds == {"std_exception", "other"}

\* Argument vectors Run may be given (argc, argv).
ArgVectors == {<<"icinga2">>, <<"/usr/sbin/icinga2", "-c">>}

\* Values of the _DEBUG environment variable seen by the constructor
\* (strtol(...) != 0); "unset" is getenv returning NULL.
DebugEnv == {"unset", "0", "1"}

\* A thread other than the one that calls Run.
WorkerThread == "worker"
Threads == {MainThread, WorkerThread}

\* Library paths LoadComponent may be given.  lt_dlopen fails on the first;
\* the second opens and has no CreateComponent symbol; the others open and
\* their CreateComponent returns the component named.
LibPaths == {"missing.so", "plain.so", "a2.so", "b.so"}
DlOpens(path) == path # "missing.so"
CreateComponent(path) == CASE path = "a2.so" -> "a2"
                           [] path = "b.so" -> "b"
                           [] OTHER -> Null

\* The text lt_dlerror() returns after a failed lt_dlopen.
DlError == "file not found"

\* What GetExePath reads from the operating system: the working directory
\* (Null: getcwd fails), the PATH variable (<<"unset">>: getenv returns NULL;
\* otherwise "set" followed by its directories) and the executable files.
WorkingDirs == {Null, "/home", "/srv"}
PathEnvs == {<<"unset">>, <<"set", "/bin">>, <<"set", "/srv", "/usr/sbin">>}
FileSets == {{}, {"/usr/sbin/icinga2"},
             {"/usr/sbin/icinga2", "/srv/icinga2", "/home/icinga2"}}
OsEnvs == [cwd : WorkingDirs, pathEnv : PathEnvs, files : FileSets]
InitialEnv == [cwd |-> "/home", pathEnv |-> <<"set", "/bin">>,
               files |-> {"/usr/sbin/icinga2"}]

\* argv0[0] == '/' and argv0.find_first_of('/') != npos for the argument
\* vectors above.
IsAbsolute(argv0) == argv0 = "/usr/sbin/icinga2"
HasSlash(argv0) == argv0 = "/usr/sbin/icinga2"

\* realpath(): /srv/icinga2 is a symbolic link to /usr/sbin/icinga2.
RealPath(p) == IF p = "/srv/icinga2" THEN "/usr/sbin/icinga2" ELSE p

VARIABLES
    m_Instance,       \* Application::m_Instance: Null or Self
    m_ShuttingDown,   \* Application::m_ShuttingDown
    m_Debugging,      \* Application::m_Debugging
    m_MainThreadID,   \* Application::m_MainThreadID
    m_Components,     \* map name -> component (Null: no entry)
    m_Arguments,      \* Application::m_Arguments
    compState,        \* lifecycle state of each component
    startCount,       \* number of Start() calls each component received
    stopCount,        \* number of Stop() calls each component received
    teardownStops,    \* components stopped by the destructor, in call order
    alive,            \* the Application object has not been destroyed
    pc,               \* position of the main thread
    result,           \* value returned by Run
    fault,            \* kind of the fault Main threw, or Null
    sigint,           \* disposition of SIGINT: "default" or "handler"
    sigpipe,          \* disposition of SIGPIPE: "default" or "ignore"
    killed,           \* the process was terminated by a signal
    loopPc,           \* position inside RunEventLoop
    pending,          \* event queue: events posted and not yet returned by Wait
    posted,           \* events posted so far, in the order of posting
    batch,            \* the vector filled by the last Event::Wait
    idx,              \* position of the dispatch iterator in batch
    dispatched,       \* callbacks invoked in the current wait cycle, in order
    got,              \* last GetInstance() call of a thread: value returned
                      \* and m_Instance at the time of the call
    nShutdownCalls,   \* number of Shutdown() calls made so far
    nTransitions,     \* number of Running -> ShuttingDown changes of the flag
    setAt,            \* loop position and iterator at which the flag became set
    waitsAfterSet,    \* number of Event::Wait calls begun with the flag set
    lastReg,          \* per name, the component most recently registered
    distinctRegs,     \* the calls so far are Register calls with distinct names
    lastSig,          \* what the last run of the interrupt handler did
    assertion,        \* the assertion that aborted the process, or Null
    loadErr,          \* what the last LoadComponent call threw, or Null
    opened,           \* library paths lt_dlopen has opened
    exeCache,         \* the static string result of GetExePath ("": empty)
    osEnv,            \* working directory, PATH and executable files now
    exeRet            \* outcome of the last GetExePath call

regVars == <<m_Components, compState, startCount, stopCount, teardownStops,
             lastReg, distinctRegs>>
flagVars == <<m_ShuttingDown, nShutdownCalls, nTransitions, setAt>>
runVars == <<m_Instance, m_MainThreadID, m_Arguments, pc, result, fault, sigpipe>>
loopVars == <<loopPc, batch, idx, dispatched, waitsAfterSet>>
queueVars == <<pending, posted>>
loadVars == <<loadErr, opened>>
exeVars == <<exeCache, osEnv, exeRet>>

vars == <<m_Instance, m_ShuttingDown, m_Debugging, m_MainThreadID, m_Components,
          m_Arguments, compState, startCount, stopCount, teardownStops, alive, pc, result,
          fault, sigint, sigpipe, killed, loopPc, pending, posted, batch, idx,
          dispatched, got, nShutdownCalls, nTransitions, setAt, waitsAfterSet,
          lastReg, distinctRegs, lastSig, assertion, loadErr, opened, exeCache,
          osEnv, exeRet>>

\* ------------------------------------------------------------ construction

\* The constructor's reading of _DEBUG: set and strtol(value) != 0.
DebuggingFromEnv(v) == v # "unset" /\ v # "0"

\* Static initialisers (lines 28-31) followed by the constructor (36-53).
Init ==
    /\ m_Instance = Null
    /\ m_ShuttingDown = FALSE
    /\ m_Debugging \in {DebuggingFromEnv(v) : v \in DebugEnv}
    /\ m_MainThreadID = NoThread
    /\ m_Components = [n \in Names |-> Null]
    /\ m_Arguments = <<>>
    /\ compState = [c \in Components |-> "loaded"]
    /\ startCount = [c \in Components |-> 0]
    /\ stopCount = [c \in Components |-> 0]
    /\ teardownStops = <<>>
    /\ alive = TRUE
    /\ pc = "constructed"
    /\ result = NoResult
    /\ fault = Null
    /\ sigint = "default"
    /\ sigpipe = "default"
    /\ killed = FALSE
    /\ loopPc = "none"
    /\ pending = <<>>
    /\ posted = <<>>
    /\ batch = <<>>
    /\ idx = 1
    /\ dispatched = <<>>
    /\ got = <<"uncalled", Null>>
    /\ nShutdownCalls = 0
    /\ nTransitions = 0
    /\ setAt = <<"unset", 0>>
    /\ waitsAfterSet = 0
    /\ lastReg = [n \in Names |-> Null]
    /\ distinctRegs = TRUE
    /\ lastSig = "none"
    /\ assertion = Null
    /\ loadErr = Null
    /\ opened = {}
    /\ exeCache = ""
    /\ osEnv = InitialEnv
    /\ exeRet = [out |-> <<"uncalled">>, argv0 |-> "", env |-> InitialEnv]

\* ------------------------------------------------------------ shutdown flag

\* GetInstance without the test of the flag.
GetInstance_IgnoresFlag == m_Instance

\* Application::GetInstance (lines 82-88).
GetInstance == IF m_ShuttingDown THEN Null ELSE m_Instance

\* The write m_ShuttingDown = v, with the bookkeeping of when it happened.
WriteFlag(v) ==
    /\ m_ShuttingDown' = v
    /\ nTransitions' = IF ~m_ShuttingDown /\ v THEN nTransitions + 1 ELSE nTransitions
    /\ setAt' = IF ~m_ShuttingDown /\ v THEN <<loopPc, idx>> ELSE setAt

\* Shutdown flipping the flag instead of setting it.
Shutdown_Toggles ==
    /\ WriteFlag(~m_ShuttingDown)
    /\ nShutdownCalls' = nShutdownCalls + 1

\* Application::Shutdown (lines 119-122).
Shutdown ==
    /\ WriteFlag(TRUE)
    /\ nShutdownCalls' = nShutdownCalls + 1

\* ------------------------------------------------------------ registry

\* Component::Start() / Component::Stop() as seen by the registry.
StartOf(c) ==
    /\ compState' = [compState EXCEPT ![c] = "started"]
    /\ startCount' = [startCount EXCEPT ![c] = @ + 1]

\* Total number of Start/Stop calls made through Register/Unregister.
RECURSIVE SumOver(_, _)
SumOver(f, S) == IF S = {} THEN 0
                 ELSE LET x == CHOOSE y \in S : TRUE
                      IN f[x] + SumOver(f, S \ {x})

OpsDone == SumOver(startCount, Components) + SumOver(stopCount, Components)

\* Application::GetComponent (lines 211-219).
GetComponent(name) == m_Components[name]

\* RegisterComponent that forgets to start the component.
RegisterComponent_NoStart(c) ==
    /\ ~killed /\ alive
    /\ pc \in {"constructed", "main"}
    /\ OpsDone < MaxOps
    /\ m_Components' = [m_Components EXCEPT ![GetName(c)] = c]
    /\ lastReg' = [lastReg EXCEPT ![GetName(c)] = c]
    /\ distinctRegs' = (distinctRegs /\ lastReg[GetName(c)] = Null)
    /\ UNCHANGED <<compState, startCount, stopCount, teardownStops>>
    /\ UNCHANGED <<flagVars, runVars, loopVars, queueVars>>
    /\ UNCHANGED <<m_Debugging, alive, sigint, killed, got>>
    /\ UNCHANGED <<lastSig, assertion, loadVars, exeVars>>

\* RegisterComponent that stops the component it replaces in the map.
RegisterComponent_StopsReplaced(c) ==
    /\ ~killed /\ alive
    /\ pc \in {"constructed", "main"}
    /\ OpsDone < MaxOps
    /\ m_Components' = [m_Components EXCEPT ![GetName(c)] = c]
    /\ lastReg' = [lastReg EXCEPT ![GetName(c)] = c]
    /\ distinctRegs' = (distinctRegs /\ lastReg[GetName(c)] = Null)
    /\ LET old == m_Components[GetName(c)]
       IN /\ compState' = [d \in Components |->
                             IF d = c THEN "started"
                             ELSE IF d = old THEN "stopped" ELSE compState[d]]
          /\ stopCount' = [d \in Components |->
                             IF d = old /\ d # c THEN stopCount[d] + 1 ELSE stopCount[d]]
    /\ startCount' = [startCount EXCEPT ![c] = @ + 1]
    /\ UNCHANGED <<teardownStops>>
    /\ UNCHANGED <<flagVars, runVars, loopVars, queueVars>>
    /\ UNCHANGED <<m_Debugging, alive, sigint, killed, got>>
    /\ UNCHANGED <<lastSig, assertion, loadVars, exeVars>>

\* Application::RegisterComponent (lines 181-186).
RegisterComponent(c) ==
    /\ ~killed /\ alive
    /\ pc \in {"constructed", "main"}
    /\ OpsDone < MaxOps
    /\ m_Components' = [m_Components EXCEPT ![GetName(c)] = c]
    /\ StartOf(c)
    /\ lastReg' = [lastReg EXCEPT ![GetName(c)] = c]
    /\ distinctRegs' = (distinctRegs /\ lastReg[GetName(c)] = Null)
    /\ UNCHANGED <<stopCount, teardownStops>>
    /\ UNCHANGED <<flagVars, runVars, loopVars, queueVars>>
    /\ UNCHANGED <<m_Debugging, alive, sigint, killed, got>>
    /\ UNCHANGED <<lastSig, assertion, loadVars, exeVars>>

\* UnregisterComponent that stops the component only when its name was mapped.
UnregisterComponent_StopsIfFound(c) ==
    /\ ~killed /\ alive
    /\ pc \in {"constructed", "main"}
    /\ OpsDone < MaxOps
    /\ IF m_Components[GetName(c)] # Null
       THEN /\ m_Components' = [m_Components EXCEPT ![GetName(c)] = Null]
            /\ compState' = [compState EXCEPT ![c] = "stopped"]
            /\ stopCount' = [stopCount EXCEPT ![c] = @ + 1]
       ELSE UNCHANGED <<m_Components, compState, stopCount>>
    /\ distinctRegs' = FALSE
    /\ UNCHANGED <<startCount, teardownStops, lastReg>>
    /\ UNCHANGED <<flagVars, runVars, loopVars, queueVars>>
    /\ UNCHANGED <<m_Debugging, alive, sigint, killed, got>>
    /\ UNCHANGED <<lastSig, assertion, loadVars, exeVars>>


\* An Unregister that stops c and leaves the map as it is.
UnregisterComponent_KeepsEntry(c) ==
    /\ ~killed /\ alive
    /\ pc \in {"constructed", "main"}
    /\ OpsDone < MaxOps
    /\ compState' = [compState EXCEPT ![c] = "stopped"]
    /\ stopCount' = [stopCount EXCEPT ![c] = @ + 1]
    /\ distinctRegs' = FALSE
    /\ UNCHANGED <<m_Components, startCount, teardownStops, lastReg>>
    /\ UNCHANGED <<flagVars, runVars, loopVars, queueVars>>
    /\ UNCHANGED <<m_Debugging, alive, sigint, killed, got>>
    /\ UNCHANGED <<lastSig, assertion, loadVars, exeVars>>

\* An Unregister keyed by instance: the entry is erased only when it holds c.
UnregisterComponent_ByInstance(c) ==
    /\ ~killed /\ alive
    /\ pc \in {"constructed", "main"}
    /\ OpsDone < MaxOps
    /\ m_Components' = IF m_Components[GetName(c)] = c
                       THEN [m_Components EXCEPT ![GetName(c)] = Null]
                       ELSE m_Components
    /\ compState' = [compState EXCEPT ![c] = "stopped"]
    /\ stopCount' = [stopCount EXCEPT ![c] = @ + 1]
    /\ distinctRegs' = FALSE
    /\ UNCHANGED <<startCount, teardownStops, lastReg>>
    /\ UNCHANGED <<flagVars, runVars, loopVars, queueVars>>
    /\ UNCHANGED <<m_Debugging, alive, sigint, killed, got>>
    /\ UNCHANGED <<lastSig, assertion, loadVars, exeVars>>

\* Application::UnregisterComponent (lines 193-203).
UnregisterComponent(c) ==
    /\ ~killed /\ alive
    /\ pc \in {"constructed", "main"}
    /\ OpsDone < MaxOps
    /\ m_Components' = IF m_Components[GetName(c)] # Null
                       THEN [m_Components EXCEPT ![GetName(c)] = Null]
                       ELSE m_Components
    /\ compState' = [compState EXCEPT ![c] = "stopped"]
    /\ stopCount' = [stopCount EXCEPT ![c] = @ + 1]
    /\ distinctRegs' = FALSE
    /\ UNCHANGED <<startCount, teardownStops, lastReg>>
    /\ UNCHANGED <<flagVars, runVars, loopVars, queueVars>>
    /\ UNCHANGED <<m_Debugging, alive, sigint, killed, got>>
    /\ UNCHANGED <<lastSig, assertion, loadVars, exeVars>>

\* The components of the map in iteration order (begin() .. end()).
RegistryOrder(m) ==
    LET present == SelectSeq(NameOrder, LAMBDA n : m[n] # Null)
    IN [i \in 1..Len(present) |-> m[present[i]]]

SeqRange(s) == {s[i] : i \in 1..Len(s)}

\* The destructor walking the map from its last entry to its first.
Destructor_ReverseOrder ==
    /\ ~killed /\ alive
    /\ pc \in {"constructed", "returned", "propagated"}
    /\ WriteFlag(TRUE)
    /\ LET fwd == RegistryOrder(m_Components)
           order == [i \in 1..Len(fwd) |-> fwd[Len(fwd) + 1 - i]]
       IN /\ teardownStops' = order
          /\ compState' = [c \in Components |->
                             IF c \in SeqRange(order) THEN "stopped" ELSE compState[c]]
          /\ stopCount' = [c \in Components |->
                             stopCount[c] + Cardinality({i \in 1..Len(order) : order[i] = c})]
    /\ m_Components' = [n \in Names |-> Null]
    /\ alive' = FALSE
    /\ UNCHANGED <<startCount, lastReg, distinctRegs, nShutdownCalls>>
    /\ UNCHANGED <<runVars, loopVars, queueVars>>
    /\ UNCHANGED <<m_Debugging, sigint, killed, got>>
    /\ UNCHANGED <<lastSig, assertion, loadVars, exeVars>>

\* Application::~Application (lines 58-75).
Destructor ==
    /\ ~killed /\ alive
    /\ pc \in {"constructed", "returned", "propagated"}
    /\ WriteFlag(TRUE)
    /\ LET order == RegistryOrder(m_Components)
       IN /\ teardownStops' = order
          /\ compState' = [c \in Components |->
                             IF c \in SeqRange(order) THEN "stopped" ELSE compState[c]]
          /\ stopCount' = [c \in Components |->
                             stopCount[c] + Cardinality({i \in 1..Len(order) : order[i] = c})]
    /\ m_Components' = [n \in Names |-> Null]
    /\ alive' = FALSE
    /\ UNCHANGED <<startCount, lastReg, distinctRegs, nShutdownCalls>>
    /\ UNCHANGED <<runVars, loopVars, queueVars>>
    /\ UNCHANGED <<m_Debugging, sigint, killed, got>>
    /\ UNCHANGED <<lastSig, assertion, loadVars, exeVars>>

\* ------------------------------------------------------------ Run

\* assert(expr) with expr false: abort() raises SIGABRT, which terminates the
\* process (assertions are compiled in: NDEBUG is not defined).
AssertFails(which) ==
    /\ assertion' = which
    /\ pc' = "aborted"
    /\ killed' = TRUE

\* Application::Run up to the call of Main (lines 366-390, then 393 or 398),
\* called on a fresh instance or again after an earlier Run has returned.
RunEnter(args) ==
    /\ ~killed /\ alive
    /\ pc \in {"constructed", "returned"}
    /\ IF m_Instance # Null
       THEN /\ AssertFails("no_singleton")
            /\ UNCHANGED <<m_Instance, m_MainThreadID, m_Arguments, sigint, sigpipe>>
            /\ UNCHANGED <<result, fault>>
       ELSE /\ m_MainThreadID' = MainThread
            /\ m_Instance' = Self
            /\ sigint' = "handler"
            /\ sigpipe' = "ignore"
            /\ m_Arguments' = args
            /\ result' = NoResult
            /\ fault' = Null
            /\ pc' = "main"
            /\ UNCHANGED <<assertion, killed>>
    /\ UNCHANGED <<regVars, flagVars, loopVars, queueVars>>
    /\ UNCHANGED <<m_Debugging, alive, got>>
    /\ UNCHANGED <<lastSig, loadVars, exeVars>>

\* A Run that releases the singleton when Main returns, in both modes.
MainReturns_ReleasesAlways(code) ==
    /\ ~killed
    /\ pc = "main"
    /\ m_Instance' = Null
    /\ result' = code
    /\ pc' = "returned"
    /\ UNCHANGED <<m_MainThreadID, m_Arguments, fault, sigpipe>>
    /\ UNCHANGED <<regVars, flagVars, loopVars, queueVars>>
    /\ UNCHANGED <<m_Debugging, alive, sigint, killed, got>>
    /\ UNCHANGED <<lastSig, assertion, loadVars, exeVars>>

\* Main returns code (lines 393-395 in debug mode, 398 otherwise; then 410).
MainReturns(code) ==
    /\ ~killed
    /\ pc = "main"
    /\ m_Instance' = IF m_Debugging THEN Null ELSE m_Instance
    /\ result' = code
    /\ pc' = "returned"
    /\ UNCHANGED <<m_MainThreadID, m_Arguments, fault, sigpipe>>
    /\ UNCHANGED <<regVars, flagVars, loopVars, queueVars>>
    /\ UNCHANGED <<m_Debugging, alive, sigint, killed, got>>
    /\ UNCHANGED <<lastSig, assertion, loadVars, exeVars>>

\* A Run that releases the singleton on every fault, caught or not.
MainThrows_ReleasesAlways(kind) ==
    /\ ~killed
    /\ pc = "main"
    /\ fault' = kind
    /\ m_Instance' = Null
    /\ IF ~m_Debugging /\ kind = "std_exception"
       THEN /\ result' = EXIT_FAILURE
            /\ pc' = "returned"
       ELSE /\ pc' = "propagated"
            /\ UNCHANGED <<result>>
    /\ UNCHANGED <<m_MainThreadID, m_Arguments, sigpipe>>
    /\ UNCHANGED <<regVars, flagVars, loopVars, queueVars>>
    /\ UNCHANGED <<m_Debugging, alive, sigint, killed, got>>
    /\ UNCHANGED <<lastSig, assertion, loadVars, exeVars>>

\* Main throws a fault of the given kind (line 393 in debug mode: nothing
\* catches it; lines 397-407 otherwise: the handler accepts std::exception only).
MainThrows(kind) ==
    /\ ~killed
    /\ pc = "main"
    /\ fault' = kind
    /\ IF ~m_Debugging /\ kind = "std_exception"
       THEN /\ m_Instance' = Null
            /\ result' = EXIT_FAILURE
            /\ pc' = "returned"
       ELSE /\ pc' = "propagated"
            /\ UNCHANGED <<m_Instance, result>>
    /\ UNCHANGED <<m_MainThreadID, m_Arguments, sigpipe>>
    /\ UNCHANGED <<regVars, flagVars, loopVars, queueVars>>
    /\ UNCHANGED <<m_Debugging, alive, sigint, killed, got>>
    /\ UNCHANGED <<lastSig, assertion, loadVars, exeVars>>

\* ------------------------------------------------------------ loader

\* An IsMainThread that answers true to every thread.
IsMainThread_Always(t) == t \in Threads

\* Application::IsMainThread (lines 312-315), called by thread t.
IsMainThread(t) == t = m_MainThreadID

\* The runtime_error of lines 149-151 and of lines 166-168: its type and the
\* pieces its what() string is concatenated from.
OpenError(path) ==
    [type |-> "runtime_error", cause |-> "open",
     what |-> <<"Could not load module '", path, "': ", DlError>>]
SymbolError(path) ==
    [type |-> "runtime_error", cause |-> "symbol",
     what |-> <<"Loadable module does not contain CreateComponent function">>]

\* Application::LoadComponent(path, componentConfig) (lines 131-174), called
\* by thread t; the main thread calls it where it makes its registry calls.
\* CreateComponent returns a new object on every call, so a library whose
\* component already exists is not loaded again.  SetConfig (line 171) changes
\* nothing modelled here.
LoadComponent(t, path) ==
    /\ ~killed /\ alive
    /\ t = MainThread => pc \in {"constructed", "main"}
    /\ IF ~IsMainThread(t)
       THEN /\ AssertFails("main_thread")
            /\ UNCHANGED <<regVars, loadVars>>
       ELSE /\ UNCHANGED <<assertion, pc, killed>>
            /\ IF ~DlOpens(path)
               THEN /\ loadErr' = <<path, OpenError(path)>>
                    /\ UNCHANGED <<regVars, opened>>
               ELSE /\ opened' = opened \cup {path}
                    /\ IF CreateComponent(path) = Null
                       THEN /\ loadErr' = <<path, SymbolError(path)>>
                            /\ UNCHANGED regVars
                       ELSE LET component == CreateComponent(path)
                            IN /\ compState[component] = "loaded"
                               /\ OpsDone < MaxOps
                               /\ loadErr' = Null
                               \* RegisterComponent(component), line 172
                               /\ m_Components' =
                                    [m_Components EXCEPT ![GetName(component)] = component]
                               /\ StartOf(component)
                               /\ lastReg' =
                                    [lastReg EXCEPT ![GetName(component)] = component]
                               /\ distinctRegs' =
                                    (distinctRegs /\ lastReg[GetName(component)] = Null)
                               /\ UNCHANGED <<stopCount, teardownStops>>
    /\ UNCHANGED <<m_Instance, m_MainThreadID, m_Arguments, result, fault, sigpipe>>
    /\ UNCHANGED <<flagVars, loopVars, queueVars>>
    /\ UNCHANGED <<m_Debugging, alive, sigint, got>>
    /\ UNCHANGED <<lastSig, exeVars>>

\* ------------------------------------------------------------ executable path

\* The resolution of lines 236-275 for argument 0 and the operating-system
\* state env: <<"ok", path>> with the value assigned to result at line 275, or
\* <<"throw", message>> for the exception thrown.
Resolve(argv0, env) ==
    IF env.cwd = Null
    THEN <<"throw", "getcwd failed">>
    ELSE LET workingDirectory == env.cwd
             fromCwd == IF ~IsAbsolute(argv0)
                        THEN workingDirectory \o "/" \o argv0
                        ELSE argv0
             paths == Tail(env.pathEnv)
             hits == {i \in 1..Len(paths) : (paths[i] \o "/" \o argv0) \in env.files}
             first == CHOOSE i \in hits : \A j \in hits : i <= j
             searched == ~HasSlash(argv0) /\ env.pathEnv[1] = "set"
             executablePath == IF searched /\ hits # {}
                               THEN paths[first] \o "/" \o argv0
                               ELSE fromCwd
         IN IF searched /\ hits = {}
            THEN <<"throw", "Could not determine executable path.">>
            ELSE IF executablePath \notin env.files
                 THEN <<"throw", "realpath failed">>
                 ELSE <<"ok", RealPath(executablePath)>>

\* A GetExePath that resolves on every call.
GetExePath_NoCache ==
    /\ ~killed /\ alive
    /\ pc = "main"
    /\ LET r == Resolve(m_Arguments[1], osEnv)
       IN /\ exeRet' = [out |-> r, argv0 |-> m_Arguments[1], env |-> osEnv]
          /\ exeCache' = IF r[1] = "ok" THEN r[2] ELSE exeCache
    /\ UNCHANGED osEnv
    /\ UNCHANGED <<regVars, flagVars, runVars, loopVars, queueVars>>
    /\ UNCHANGED <<m_Debugging, alive, sigint, killed, got>>
    /\ UNCHANGED <<lastSig, assertion, loadVars>>

\* Application::GetExePath (lines 226-286), called by Main; exeRet records
\* what the call returned or threw, and what it was called with.
GetExePath ==
    /\ ~killed /\ alive
    /\ pc = "main"
    /\ LET r == IF exeCache # ""
                THEN <<"ok", exeCache>>
                ELSE Resolve(m_Arguments[1], osEnv)
       IN /\ exeRet' = [out |-> r, argv0 |-> m_Arguments[1], env |-> osEnv]
          /\ exeCache' = IF exeCache = "" /\ r[1] = "ok" THEN r[2] ELSE exeCache
    /\ UNCHANGED osEnv
    /\ UNCHANGED <<regVars, flagVars, runVars, loopVars, queueVars>>
    /\ UNCHANGED <<m_Debugging, alive, sigint, killed, got>>
    /\ UNCHANGED <<lastSig, assertion, loadVars>>

\* The working directory, PATH or the files on disk change (chdir, setenv, or
\* another process).
EnvChange(env) ==
    /\ ~killed
    /\ env # osEnv
    /\ osEnv' = env
    /\ UNCHANGED <<exeCache, exeRet>>
    /\ UNCHANGED <<regVars, flagVars, runVars, loopVars, queueVars>>
    /\ UNCHANGED <<m_Debugging, alive, sigint, killed, got>>
    /\ UNCHANGED <<lastSig, assertion, loadVars>>

\* ------------------------------------------------------------ event loop

\* Main calls RunEventLoop (line 94).
EnterLoop ==
    /\ ~killed
    /\ pc = "main"
    /\ pc' = "loop"
    /\ loopPc' = "head"
    /\ UNCHANGED <<m_Instance, m_MainThreadID, m_Arguments, result, fault, sigpipe>>
    /\ UNCHANGED <<batch, idx, dispatched, waitsAfterSet>>
    /\ UNCHANGED <<regVars, flagVars, queueVars>>
    /\ UNCHANGED <<m_Debugging, alive, sigint, killed, got>>
    /\ UNCHANGED <<lastSig, assertion, loadVars, exeVars>>

\* RunEventLoop returns to Main (the while condition failed, or the break).
LeaveLoop ==
    /\ pc' = "main"
    /\ loopPc' = "returned"

\* while (!m_ShuttingDown) (line 96); the events vector of the previous
\* iteration is gone when a new iteration begins.
LoopHead ==
    /\ ~killed
    /\ loopPc = "head"
    /\ IF m_ShuttingDown THEN LeaveLoop ELSE pc' = pc /\ loopPc' = "clear"
    /\ batch' = <<>>
    /\ idx' = 1
    /\ dispatched' = <<>>
    /\ UNCHANGED <<m_Instance, m_MainThreadID, m_Arguments, result, fault, sigpipe, waitsAfterSet>>
    /\ UNCHANGED <<regVars, flagVars, queueVars>>
    /\ UNCHANGED <<m_Debugging, alive, sigint, killed, got>>
    /\ UNCHANGED <<lastSig, assertion, loadVars, exeVars>>

\* Object::ClearHeldObjects() (line 97).
LoopClearHeld ==
    /\ ~killed
    /\ loopPc = "clear"
    /\ loopPc' = "timers"
    /\ UNCHANGED <<batch, idx, dispatched, waitsAfterSet>>
    /\ UNCHANGED <<regVars, flagVars, runVars, queueVars>>
    /\ UNCHANGED <<m_Debugging, alive, sigint, killed, got>>
    /\ UNCHANGED <<lastSig, assertion, loadVars, exeVars>>

\* Timer processing followed by the wait, without the re-check of the flag.
LoopProcessTimers_NoRecheck(callsShutdown) ==
    /\ ~killed
    /\ loopPc = "timers"
    /\ callsShutdown => nShutdownCalls < MaxShutdownCalls
    /\ loopPc' = "wait"
    /\ IF callsShutdown THEN Shutdown ELSE UNCHANGED flagVars
    /\ UNCHANGED <<batch, idx, dispatched, waitsAfterSet>>
    /\ UNCHANGED <<regVars, runVars, queueVars>>
    /\ UNCHANGED <<m_Debugging, alive, sigint, killed, got>>
    /\ UNCHANGED <<lastSig, assertion, loadVars, exeVars>>

\* Timer::ProcessTimers() (line 99); a timer callback may call Shutdown().
LoopProcessTimers(callsShutdown) ==
    /\ ~killed
    /\ loopPc = "timers"
    /\ callsShutdown => nShutdownCalls < MaxShutdownCalls
    /\ loopPc' = "recheck"
    /\ IF callsShutdown THEN Shutdown ELSE UNCHANGED flagVars
    /\ UNCHANGED <<batch, idx, dispatched, waitsAfterSet>>
    /\ UNCHANGED <<regVars, runVars, queueVars>>
    /\ UNCHANGED <<m_Debugging, alive, sigint, killed, got>>
    /\ UNCHANGED <<lastSig, assertion, loadVars, exeVars>>

\* The loop without the re-check of the flag after the timers.
LoopRecheck_NoBreak ==
    /\ ~killed
    /\ loopPc = "recheck"
    /\ loopPc' = "wait"
    /\ UNCHANGED <<batch, idx, dispatched, waitsAfterSet>>
    /\ UNCHANGED <<regVars, flagVars, runVars, queueVars>>
    /\ UNCHANGED <<m_Debugging, alive, sigint, killed, got>>
    /\ UNCHANGED <<lastSig, assertion, loadVars, exeVars>>

\* if (m_ShuttingDown) break; (lines 101-102).
LoopRecheck ==
    /\ ~killed
    /\ loopPc = "recheck"
    /\ IF m_ShuttingDown THEN LeaveLoop ELSE pc' = pc /\ loopPc' = "wait"
    /\ UNCHANGED <<m_Instance, m_MainThreadID, m_Arguments, result, fault, sigpipe>>
    /\ UNCHANGED <<batch, idx, dispatched, waitsAfterSet>>
    /\ UNCHANGED <<regVars, flagVars, queueVars>>
    /\ UNCHANGED <<m_Debugging, alive, sigint, killed, got>>
    /\ UNCHANGED <<lastSig, assertion, loadVars, exeVars>>

\* The call of Event::Wait (line 106): the main thread starts to block.
LoopWaitBegin ==
    /\ ~killed
    /\ loopPc = "wait"
    /\ loopPc' = "waiting"
    /\ waitsAfterSet' = IF m_ShuttingDown THEN waitsAfterSet + 1 ELSE waitsAfterSet
    /\ UNCHANGED <<batch, idx, dispatched>>
    /\ UNCHANGED <<regVars, flagVars, runVars, queueVars>>
    /\ UNCHANGED <<m_Debugging, alive, sigint, killed, got>>
    /\ UNCHANGED <<lastSig, assertion, loadVars, exeVars>>

\* Event::Wait: the events delivered so far, in enqueue order; the queue is
\* left empty.
EventWait(queue) == queue

\* An Event::Wait without a deadline: it returns only once an event is queued.
LoopWaitReturn_NoDeadline ==
    /\ ~killed
    /\ loopPc = "waiting"
    /\ pending # <<>>
    /\ batch' = EventWait(pending)
    /\ pending' = <<>>
    /\ idx' = 1
    /\ loopPc' = "dispatch"
    /\ UNCHANGED <<posted, dispatched, waitsAfterSet>>
    /\ UNCHANGED <<regVars, flagVars, runVars>>
    /\ UNCHANGED <<m_Debugging, alive, sigint, killed, got>>
    /\ UNCHANGED <<lastSig, assertion, loadVars, exeVars>>

\* Event::Wait returns (an event was posted or the deadline elapsed); the
\* iterator of line 108 starts at events.begin().
LoopWaitReturn ==
    /\ ~killed
    /\ loopPc = "waiting"
    /\ batch' = EventWait(pending)
    /\ pending' = <<>>
    /\ idx' = 1
    /\ loopPc' = "dispatch"
    /\ UNCHANGED <<posted, dispatched, waitsAfterSet>>
    /\ UNCHANGED <<regVars, flagVars, runVars>>
    /\ UNCHANGED <<m_Debugging, alive, sigint, killed, got>>
    /\ UNCHANGED <<lastSig, assertion, loadVars, exeVars>>

\* A dispatch loop that abandons the rest of the batch once the flag is set.
LoopDispatch_SkipsOnShutdown(callsShutdown) ==
    /\ ~killed
    /\ loopPc = "dispatch"
    /\ idx <= Len(batch)
    /\ callsShutdown => nShutdownCalls < MaxShutdownCalls
    /\ IF m_ShuttingDown
       THEN /\ idx' = Len(batch) + 1
            /\ UNCHANGED <<dispatched, flagVars>>
       ELSE /\ dispatched' = Append(dispatched, batch[idx])
            /\ idx' = idx + 1
            /\ IF callsShutdown THEN Shutdown ELSE UNCHANGED flagVars
    /\ UNCHANGED <<loopPc, batch, waitsAfterSet>>
    /\ UNCHANGED <<regVars, runVars, queueVars>>
    /\ UNCHANGED <<m_Debugging, alive, sigint, killed, got>>
    /\ UNCHANGED <<lastSig, assertion, loadVars, exeVars>>

\* One pass of the for loop body (lines 108-111): ev->OnEventDelivered();
\* the callback may call Shutdown().
LoopDispatch(callsShutdown) ==
    /\ ~killed
    /\ loopPc = "dispatch"
    /\ idx <= Len(batch)
    /\ callsShutdown => nShutdownCalls < MaxShutdownCalls
    /\ dispatched' = Append(dispatched, batch[idx])
    /\ idx' = idx + 1
    /\ IF callsShutdown THEN Shutdown ELSE UNCHANGED flagVars
    /\ UNCHANGED <<loopPc, batch, waitsAfterSet>>
    /\ UNCHANGED <<regVars, runVars, queueVars>>
    /\ UNCHANGED <<m_Debugging, alive, sigint, killed, got>>
    /\ UNCHANGED <<lastSig, assertion, loadVars, exeVars>>

\* it == events.end() (line 108): the iteration is over.
LoopDispatchEnd ==
    /\ ~killed
    /\ loopPc = "dispatch"
    /\ idx > Len(batch)
    /\ loopPc' = "head"
    /\ UNCHANGED <<batch, idx, dispatched, waitsAfterSet>>
    /\ UNCHANGED <<regVars, flagVars, runVars, queueVars>>
    /\ UNCHANGED <<m_Debugging, alive, sigint, killed, got>>
    /\ UNCHANGED <<lastSig, assertion, loadVars, exeVars>>

\* ------------------------------------------------------------ other threads

\* A thread other than the main thread posts an event to the queue.
Enqueue(e) ==
    /\ ~killed
    /\ \A i \in 1..Len(posted) : posted[i] # e
    /\ pending' = Append(pending, e)
    /\ posted' = Append(posted, e)
    /\ UNCHANGED <<regVars, flagVars, runVars, loopVars>>
    /\ UNCHANGED <<m_Debugging, alive, sigint, killed, got>>
    /\ UNCHANGED <<lastSig, assertion, loadVars, exeVars>>

\* Some thread calls Application::Shutdown() (static, lines 119-122),
\* outside the callbacks of the loop.
CallShutdown ==
    /\ ~killed
    /\ nShutdownCalls < MaxShutdownCalls
    /\ Shutdown
    /\ UNCHANGED <<regVars, runVars, loopVars, queueVars>>
    /\ UNCHANGED <<m_Debugging, alive, sigint, killed, got>>
    /\ UNCHANGED <<lastSig, assertion, loadVars, exeVars>>

\* Some thread calls Application::GetInstance() (lines 82-88).
CallGetInstance ==
    /\ ~killed
    /\ got' = <<GetInstance, m_Instance>>
    /\ UNCHANGED <<regVars, flagVars, runVars, loopVars, queueVars>>
    /\ UNCHANGED <<m_Debugging, alive, sigint, killed>>
    /\ UNCHANGED <<lastSig, assertion, loadVars, exeVars>>

\* An interrupt handler that tests m_Instance itself instead of GetInstance().
SigIntHandler_TestsInstance ==
    /\ ~killed
    /\ sigint = "handler"
    /\ IF m_Instance = Null
       THEN /\ lastSig' = "noop"
            /\ UNCHANGED <<flagVars, sigint>>
       ELSE /\ Shutdown
            /\ sigint' = "default"
            /\ lastSig' = "shutdown"
    /\ UNCHANGED <<regVars, runVars, loopVars, queueVars>>
    /\ UNCHANGED <<m_Debugging, alive, killed, got>>
    /\ UNCHANGED <<assertion, loadVars, exeVars>>

\* An interrupt handler that leaves itself installed after calling Shutdown().
SigIntHandler_StaysInstalled ==
    /\ ~killed
    /\ sigint = "handler"
    /\ IF GetInstance = Null
       THEN /\ lastSig' = "noop"
            /\ UNCHANGED <<flagVars, sigint>>
       ELSE /\ Shutdown
            /\ lastSig' = "shutdown"
            /\ UNCHANGED sigint
    /\ UNCHANGED <<regVars, runVars, loopVars, queueVars>>
    /\ UNCHANGED <<m_Debugging, alive, killed, got>>
    /\ UNCHANGED <<assertion, loadVars, exeVars>>

\* Application::SigIntHandler (lines 324-339), entered when SIGINT arrives
\* while the handler is installed.
SigIntHandler ==
    /\ ~killed
    /\ sigint = "handler"
    /\ IF GetInstance = Null
       THEN /\ lastSig' = "noop"
            /\ UNCHANGED <<flagVars, sigint>>
       ELSE /\ Shutdown
            /\ sigint' = "default"
            /\ lastSig' = "shutdown"
    /\ UNCHANGED <<regVars, runVars, loopVars, queueVars>>
    /\ UNCHANGED <<m_Debugging, alive, killed, got>>
    /\ UNCHANGED <<assertion, loadVars, exeVars>>

\* SIGINT arrives while its disposition is SIG_DFL: the process terminates.
SigIntDefault ==
    /\ ~killed
    /\ sigint = "default"
    /\ killed' = TRUE
    /\ UNCHANGED <<regVars, flagVars, runVars, loopVars, queueVars>>
    /\ UNCHANGED <<m_Debugging, alive, sigint, got>>
    /\ UNCHANGED <<lastSig, assertion, loadVars, exeVars>>

\* ------------------------------------------------------------ properties

\* All variables but the count of Shutdown() calls.
stateVars == <<m_Instance, m_ShuttingDown, m_Debugging, m_MainThreadID, m_Components,
               m_Arguments, compState, startCount, stopCount, teardownStops, alive, pc, result,
               fault, sigint, sigpipe, killed, loopPc, pending, posted, batch, idx,
               dispatched, got, nTransitions, setAt, waitsAfterSet, lastReg,
               distinctRegs>>

\* C1: once the shutdown flag is set, no step resets it, and every
\* GetInstance() call made from then on returns nothing.
C1_FlagMonotonic ==
    [][m_ShuttingDown =>
         /\ m_ShuttingDown'
         /\ (CallGetInstance => got'[1] = Null)]_vars

\* A GetInstance() call made with the flag set and the singleton still
\* assigned returned nothing.
C1_Witness == m_ShuttingDown /\ got = <<Null, Self>>

\* C2: whatever Shutdown() calls are made, the flag goes from Running to
\* ShuttingDown once only (exactly once when RunEventLoop has returned), and
\* a Shutdown() call made after RunEventLoop has returned changes nothing.
C2_ShutdownIdempotent ==
    /\ [](/\ nTransitions <= 1
          /\ (loopPc = "returned" => m_ShuttingDown /\ nTransitions = 1))
    /\ [][(loopPc = "returned" /\ CallShutdown) => UNCHANGED stateVars]_vars

\* Several Shutdown() calls were made, the first of them while the loop ran,
\* and the loop has returned.
C2_Witness ==
    /\ loopPc = "returned"
    /\ nShutdownCalls >= 2
    /\ nTransitions = 1
    /\ setAt[1] \notin {"returned", "none"}

\* C3 as stated: with the flag set, the loop begins no wait on the queue.
C3_NoWaitAfterSet == waitsAfterSet = 0

\* C3 as amended: with the flag set, the loop begins at most one more wait,
\* and that one only when the flag became set between the re-check of
\* line 101 and the call of Event::Wait of the same iteration.
C3_AtMostOneWaitAfterSet ==
    /\ waitsAfterSet <= 1
    /\ waitsAfterSet = 1 => setAt[1] = "wait"

\* The loop waited once with the flag set and then returned.
C3_Witness == waitsAfterSet = 1 /\ loopPc = "returned"

\* Position of an event in the order of posting.
PostedAt(e) == CHOOSE i \in 1..Len(posted) : posted[i] = e

\* C4: in a wait cycle the callbacks of the events Event::Wait returned are
\* invoked once each, in the order of the batch (which is the order of
\* posting), up to the iterator; when the cycle is over the whole batch has
\* been dispatched, flag set or not.
C4_BatchDispatchedInOrder ==
    /\ loopPc = "dispatch" => dispatched = SubSeq(batch, 1, idx - 1)
    /\ loopPc = "head" => dispatched = batch
    /\ \A i, j \in 1..Len(dispatched) :
           i < j => PostedAt(dispatched[i]) < PostedAt(dispatched[j])

\* A batch of two events was dispatched completely although the flag became
\* set before the second callback was invoked.
C4_Witness ==
    /\ loopPc = "head"
    /\ Len(batch) = 2
    /\ dispatched = batch
    /\ setAt = <<"dispatch", 1>>

\* Position of a name in the iteration order of the map.
NameRank(n) == CHOOSE i \in 1..Len(NameOrder) : NameOrder[i] = n

\* The components the map holds.
Registered == {m_Components[n] : n \in Names} \ {Null}

\* C5: after a sequence of Register calls on components with pairwise
\* distinct names, Get(name) is the component last registered under the name
\* and every registered component is started and was started once.
C5_DistinctRegisters ==
    (alive /\ distinctRegs) =>
        \A n \in Names :
            /\ GetComponent(n) = lastReg[n]
            /\ lastReg[n] # Null =>
                   /\ startCount[lastReg[n]] = 1
                   /\ compState[lastReg[n]] = "started"

\* Three components with distinct names were registered, nothing else called.
C5_Witness ==
    /\ alive /\ distinctRegs
    /\ \A n \in Names : GetComponent(n) # Null

\* C6: a Register call under a name already mapped to another component
\* makes Get(name) return the new one and sends no Stop to any component; a
\* started component leaves the started state only in an Unregister call on
\* it or in the destructor.
C6_ReplaceKeepsFirstStarted ==
    /\ [][\A c \in Components :
            (RegisterComponent(c) /\ m_Components[GetName(c)] \notin {Null, c}) =>
                /\ m_Components'[GetName(c)] = c
                /\ stopCount' = stopCount
                /\ \A d \in Components \ {c} : compState'[d] = compState[d]]_vars
    /\ [][\A d \in Components :
            (compState[d] = "started" /\ compState'[d] # "started") =>
                (UnregisterComponent(d) \/ Destructor)]_vars

\* a1 was registered and then replaced by a2; a1 is still started.
C6_Witness ==
    /\ alive
    /\ GetComponent("A") = "a2"
    /\ startCount["a1"] = 1
    /\ stopCount["a1"] = 0
    /\ compState["a1"] = "started"

\* C7: Unregister(c) leaves no entry for c's name and sends c one Stop,
\* mapping found or not; no other component is stopped and no other entry
\* changes.
C7_UnregisterStopsAlways ==
    [][\A c \in Components :
         UnregisterComponent(c) =>
             /\ m_Components'[GetName(c)] = Null
             /\ \A n \in Names \ {GetName(c)} : m_Components'[n] = m_Components[n]
             /\ stopCount'[c] = stopCount[c] + 1
             /\ compState'[c] = "stopped"
             /\ \A d \in Components \ {c} : stopCount'[d] = stopCount[d]]_vars

\* b was unregistered without ever having been registered (a lookup miss)
\* and got its Stop.
C7_Witness ==
    /\ alive
    /\ startCount["b"] = 0
    /\ stopCount["b"] = 1
    /\ compState["b"] = "stopped"
    /\ GetComponent("B") = Null

\* C8: the destructor sends one Stop to each component the map holds, in the
\* order of the map's keys, none to a component the map does not hold, and
\* leaves the map empty.
C8_TeardownStopsRegistered ==
    [][Destructor =>
         /\ SeqRange(teardownStops') = Registered
         /\ \A i, j \in 1..Len(teardownStops') :
                i < j => NameRank(GetName(teardownStops'[i]))
                           < NameRank(GetName(teardownStops'[j]))
         /\ \A c \in Components :
                stopCount'[c] = stopCount[c] + (IF c \in Registered THEN 1 ELSE 0)
         /\ \A c \in Registered : compState'[c] = "stopped"
         /\ \A n \in Names : m_Components'[n] = Null]_vars

\* Register a1, b, c; Unregister(b); destroy: a1 then c were stopped, once
\* each, and b only by its Unregister.
C8_Witness ==
    /\ ~alive
    /\ teardownStops = <<"a1", "c">>
    /\ startCount = [x \in Components |-> IF x = "a2" THEN 0 ELSE 1]
    /\ stopCount = [x \in Components |-> IF x = "a2" THEN 0 ELSE 1]

\* C9: outside debug mode a fault thrown by Main does not leave Run: Run
\* returns EXIT_FAILURE with the singleton released.
C9_FaultContained ==
    (~m_Debugging /\ fault # Null) =>
        /\ pc = "returned"
        /\ m_Instance = Null
        /\ result = EXIT_FAILURE

\* C10 as stated: in debug mode a fault thrown by Main leaves Run with the
\* singleton released.
C10_ReleasedWhenFaultSurfaces ==
    (m_Debugging /\ fault # Null) =>
        /\ pc = "propagated"
        /\ m_Instance = Null

\* C10 as amended: in debug mode a fault thrown by Main leaves Run with the
\* singleton still assigned to the instance.
C10_AssignedWhenFaultSurfaces ==
    (m_Debugging /\ fault # Null) =>
        /\ pc = "propagated"
        /\ m_Instance = Self

\* In debug mode Main threw and the fault left Run.
C10_Witness == m_Debugging /\ fault = "std_exception" /\ pc = "propagated"

\* C11 as stated: every interrupt the handler receives while the application
\* instance exists sets the shutdown flag and restores the default disposition
\* of SIGINT, so that the interrupt after it terminates the process.
C11_EveryInterruptRestoresDefault ==
    [][(SigIntHandler /\ alive) => (m_ShuttingDown' /\ sigint' = "default")]_vars

\* C11: interrupt handling is one-shot while GetInstance() returns the
\* instance: an interrupt the handler receives then calls Shutdown() (the flag
\* is set afterwards) and restores the default disposition of SIGINT, and an
\* interrupt that arrives under the default disposition terminates the process.
C11_OneShotWhileInstanceReturned ==
    /\ [][(SigIntHandler /\ ~m_ShuttingDown /\ m_Instance # Null)
            => /\ m_ShuttingDown'
               /\ nShutdownCalls' = nShutdownCalls + 1
               /\ sigint' = "default"]_vars
    /\ [][(sigint = "default" /\ lastSig = "shutdown" /\ SigIntDefault) => killed']_vars

\* The handler ran once, with the singleton returned, and the interrupt after
\* it terminated the process.
C11_Witness ==
    /\ lastSig = "shutdown"
    /\ nShutdownCalls = 1
    /\ killed
    /\ alive

\* C19: an interrupt the handler receives while GetInstance() returns nothing
\* (the singleton reference is empty, or the shutdown flag is already set) changes
\* neither the shutdown flag nor the disposition of SIGINT: the handler stays
\* installed, and no program variable changes.
C19_InterruptWithoutInstanceIsNoOp ==
    [][(SigIntHandler /\ (m_ShuttingDown \/ m_Instance = Null))
         => /\ UNCHANGED <<m_ShuttingDown, nShutdownCalls, nTransitions, sigint>>
            /\ sigint' = "handler"
            /\ UNCHANGED <<m_Instance, regVars, loopVars, queueVars, killed, pc>>]_vars

\* The handler swallowed an interrupt after a thread's Shutdown() had set the
\* flag while the singleton was still assigned, and is still installed.
C19_Witness ==
    /\ lastSig = "noop"
    /\ sigint = "handler"
    /\ m_Instance = Self
    /\ m_ShuttingDown
    /\ nShutdownCalls = 1

\* Successive positions of RunEventLoop: entry, the steps of one iteration in
\* their order, and the two exits.
LoopOrder ==
    {<<"none", "head">>, <<"returned", "head">>,
     <<"head", "clear">>, <<"clear", "timers">>, <<"timers", "recheck">>,
     <<"recheck", "wait">>, <<"wait", "waiting">>, <<"waiting", "dispatch">>,
     <<"dispatch", "head">>,
     <<"head", "returned">>, <<"recheck", "returned">>}

\* C15: in every iteration of RunEventLoop the steps run in the order cleanup
\* of held objects, timer processing, re-check of the shutdown flag, wait,
\* dispatch; and when the re-check after timer processing finds the flag set,
\* RunEventLoop returns in that iteration: no wait on the event queue is begun,
\* no event is taken from the queue and no callback is invoked.
C15_StepOrderAndRecheckExit ==
    /\ [][loopPc' # loopPc => <<loopPc, loopPc'>> \in LoopOrder]_vars
    /\ [][(loopPc = "recheck" /\ m_ShuttingDown /\ loopPc' # loopPc)
            => /\ loopPc' = "returned"
               /\ pc' = "main"
               /\ UNCHANGED <<waitsAfterSet, batch, dispatched, pending>>]_vars
    /\ [][dispatched' # dispatched => loopPc \in {"head", "dispatch"}]_vars

\* A timer callback called Shutdown() in an iteration that had events waiting
\* in the queue; the loop returned with all of them still in the queue.
C15_Witness ==
    /\ loopPc = "returned"
    /\ setAt = <<"timers", 1>>
    /\ nShutdownCalls = 1
    /\ waitsAfterSet = 0
    /\ Len(posted) = MaxEvents
    /\ pending = posted

\* C16: a shutdown request is never missed.  When the shutdown flag is set
\* while the main thread is inside RunEventLoop, then (callbacks return, waits
\* return by their deadline) RunEventLoop eventually returns, whether or not
\* any event is ever posted; the one other way the loop ends is the process
\* being terminated by an interrupt under the default disposition.
C16_ShutdownEndsLoop ==
    (pc = "loop" /\ m_ShuttingDown) ~> (pc # "loop" \/ killed)

\* The flag became set while the loop was blocked in Event::Wait, no event was
\* ever posted, and RunEventLoop has returned.
C16_Witness ==
    /\ loopPc = "returned"
    /\ pc = "main"
    /\ setAt[1] = "waiting"
    /\ posted = <<>>
    /\ ~killed

\* C20: when Main returns normally, Run returns the code Main returned, in
\* both modes; the singleton reference is empty afterwards in debug mode and
\* still refers to the instance in non-debug mode, and there a later Run trips
\* the assertion that no singleton exists.
C20_NormalReturnKeepsSingleton ==
    /\ [][\A code \in ExitCodes :
            MainReturns(code) => (result' = code /\ pc' = "returned")]_vars
    /\ [](pc = "returned" /\ fault = Null
            => m_Instance = IF m_Debugging THEN Null ELSE Self)
    /\ [][\A args \in ArgVectors :
            (pc = "returned" /\ fault = Null /\ ~m_Debugging /\ RunEnter(args))
               => (pc' = "aborted" /\ assertion' = "no_singleton" /\ killed')]_vars

\* In non-debug mode Main returned 2, Run returned 2, and a second Run
\* tripped the assertion.
C20_Witness ==
    /\ ~m_Debugging
    /\ fault = Null
    /\ result = 2
    /\ m_Instance = Self
    /\ pc = "aborted"
    /\ assertion = "no_singleton"

\* C18: Unregister is keyed by name, not by instance.  An Unregister(c) made
\* while c's name is mapped to a different component d erases that entry and
\* stops c and nothing else: d stays started and is no longer in the registry;
\* and the destructor stops no component that is not in the registry.
C18_UnregisterByName ==
    /\ [][\A c \in Components :
            (UnregisterComponent(c) /\ m_Components[GetName(c)] \notin {Null, c})
               => LET d == m_Components[GetName(c)]
                  IN /\ m_Components'[GetName(c)] = Null
                     /\ \A n \in Names : m_Components'[n] # d
                     /\ stopCount' = [stopCount EXCEPT ![c] = @ + 1]
                     /\ compState'[c] = "stopped"
                     /\ compState[d] = "started"
                     /\ compState'[d] = "started"]_vars
    /\ [][Destructor
            => \A d \in Components :
                 (\A n \in Names : m_Components[n] # d)
                    => (stopCount'[d] = stopCount[d] /\ compState'[d] = compState[d])]_vars

\* a2 replaced a1 under the name A, Unregister(a1) erased the entry, and the
\* instance was destroyed: a2 was started once and never stopped.
C18_Witness ==
    /\ ~alive
    /\ lastReg["A"] = "a2"
    /\ startCount["a1"] = 1 /\ stopCount["a1"] = 1
    /\ startCount["a2"] = 1 /\ stopCount["a2"] = 0
    /\ compState["a2"] = "started"
    /\ teardownStops = <<>>

\* C12: LoadComponent has two loader errors, the library failing to open and the
\* library lacking the factory symbol; the two can be told apart, and the
\* message of either carries the path that was attempted.
C12_LoaderErrorsCarryPath ==
    loadErr # Null
       => LET path == loadErr[1]
              e == loadErr[2]
          IN /\ e.cause \in {"open", "symbol"}
             /\ e.cause = "open" => e.what # SymbolError(path).what
             /\ e.cause = "symbol" => e.what # OpenError(path).what
             /\ path \in SeqRange(e.what)

\* C13: IsMainThread() answers true to the thread that called Run, once Run
\* has been entered, and false to every other thread; and a LoadComponent call
\* made by another thread trips the main-thread assertion, with no library
\* opened, no component created or started and the component map untouched.
C13_MainThreadOnly ==
    /\ [](\A t \in Threads :
            IsMainThread(t) <=> (t = MainThread /\ m_Arguments # <<>>))
    /\ [][\A path \in LibPaths :
            LoadComponent(WorkerThread, path)
               => /\ assertion' = "main_thread"
                  /\ killed'
                  /\ UNCHANGED <<opened, loadErr>>
                  /\ UNCHANGED <<m_Components, compState, startCount>>]_vars

\* Run was entered by the main thread, components were loaded by it, and a
\* LoadComponent call of another thread tripped the assertion.
C13_Witness ==
    /\ m_MainThreadID = MainThread
    /\ assertion = "main_thread"
    /\ killed
    /\ opened # {}
    /\ m_Components["B"] = "b"

C14_CachedAfterFirstSuccess ==
    /\ [][exeCache # "" => exeCache' = exeCache]_vars
    /\ [][(GetExePath /\ exeCache # "") => exeRet'.out = <<"ok", exeCache>>]_vars
    /\ [][(GetExePath /\ exeCache = "")
            => LET r == Resolve(m_Arguments[1], osEnv)
               IN /\ exeRet'.out = r
                  /\ exeCache' = IF r[1] = "ok" THEN r[2] ELSE ""]_vars

\* The last call returned the cached path although a resolution with the
\* argument 0 and the operating-system state of that call would have thrown or
\* produced another path.
C14_Witness ==
    /\ exeCache # ""
    /\ exeRet.out = <<"ok", exeCache>>
    /\ Resolve(exeRet.argv0, exeRet.env) # exeRet.out

\* ------------------------------------------------------------ specification

\* Run, Main's ways of ending, and the destruction of the instance.
LifecycleNext ==
    \/ \E args \in ArgVectors : RunEnter(args)
    \/ \E code \in ExitCodes : MainReturns(code)
    \/ \E kind \in FaultKinds : MainThrows(kind)
    \/ Destructor

\* The registry calls of the main thread.
RegistryNext ==
    \/ \E c \in Components : RegisterComponent(c)
    \/ \E c \in Components : UnregisterComponent(c)

\* The event loop of the main thread, and what other threads and the
\* interrupt signal do meanwhile.
LoopNext ==
    \/ EnterLoop
    \/ LoopHead
    \/ LoopClearHeld
    \/ \E callsShutdown \in BOOLEAN : LoopProcessTimers(callsShutdown)
    \/ LoopRecheck
    \/ LoopWaitBegin
    \/ LoopWaitReturn
    \/ \E callsShutdown \in BOOLEAN : LoopDispatch(callsShutdown)
    \/ LoopDispatchEnd
    \/ \E e \in Events : Enqueue(e)
    \/ CallShutdown
    \/ CallGetInstance
    \/ SigIntHandler
    \/ SigIntDefault



\* The main thread alone, making registry calls around Run: the registry
\* calls read and write nothing the loop, the other threads or the signal
\* handler write, so the registry's behaviour under Spec is its behaviour here.
SpecRegistry == Init /\ [][LifecycleNext \/ RegistryNext]_vars

\* LoadComponent calls, by the main thread and by another thread.
LoaderNext == \E t \in Threads, path \in LibPaths : LoadComponent(t, path)

\* SpecRegistry with LoadComponent calls among the registry calls.
SpecLoader == Init /\ [][LifecycleNext \/ RegistryNext \/ LoaderNext]_vars

\* The program with a Main that makes no registry call: the loop, the other
\* threads and the signal handler neither read nor write the registry.
SpecLoop == Init /\ [][LifecycleNext \/ LoopNext]_vars

\* GetExePath calls of Main, and changes of what they read.
ExePathNext ==
    \/ GetExePath
    \/ \E env \in OsEnvs : EnvChange(env)

\* The program with a Main that asks for the executable path.
SpecExePath == Init /\ [][LifecycleNext \/ ExePathNext]_vars

\* The steps the main thread takes inside RunEventLoop.
LoopSteps ==
    \/ LoopHead
    \/ LoopClearHeld
    \/ \E callsShutdown \in BOOLEAN : LoopProcessTimers(callsShutdown)
    \/ LoopRecheck
    \/ LoopWaitBegin
    \/ LoopWaitReturn
    \/ \E callsShutdown \in BOOLEAN : LoopDispatch(callsShutdown)
    \/ LoopDispatchEnd

\* SpecLoop with a main thread that keeps running while it is inside
\* RunEventLoop: ClearHeldObjects, ProcessTimers and every event callback
\* return, and Event::Wait returns at the latest at the deadline it is given
\* (line 106).  The GetInstance() calls of other threads, which change nothing
\* the loop reads, are left out.
SpecLoopFair ==
    /\ Init
    /\ [][\/ LifecycleNext
          \/ EnterLoop
          \/ LoopSteps
          \/ \E e \in Events : Enqueue(e)
          \/ CallShutdown
          \/ SigIntHandler
          \/ SigIntDefault]_vars
    /\ WF_vars(LoopSteps)

Next == LifecycleNext \/ RegistryNext \/ LoaderNext \/ LoopNext \/ ExePathNext

\* The whole program.
Spec == Init /\ [][Next]_vars

====
